---------------------------- MODULE Spec2Model ----------------------------
(***************************************************************************)
(* Extruder stepper pulse time generation (kin_extruder): the extruder     *)
(* stepper's configuration, its position function over the move queue,     *)
(* and the smoothing integrals it is built from.                           *)
(*                                                                         *)
(* Numbers.  The C code computes in doubles.  Here every time, velocity,   *)
(* position and coefficient is an integer (a fixed unit of time and of     *)
(* length), and an integral is carried multiplied by 12, the common        *)
(* denominator of the antiderivatives' coefficients 1/2, 1/3 and 1/4, so   *)
(* that all arithmetic is exact.                                           *)
(***************************************************************************)
EXTENDS Integers, Sequences, FiniteSets, TLC

(***************************************************************************)
(* Bounds of the model.                                                    *)
(***************************************************************************)
MaxMoves == 2

(***************************************************************************)
(* Small helpers.                                                          *)
(***************************************************************************)
Abs(v) == IF v < 0 THEN -v ELSE v
Max(a, b) == IF a > b THEN a ELSE b
Min(a, b) == IF a < b THEN a ELSE b

RECURSIVE SeqSum(_)
SeqSum(s) == IF s = <<>> THEN 0 ELSE Head(s) + SeqSum(Tail(s))

\* axis - 'x' : the index of an axis character in a struct coord
AxisIdx(axis) == CASE axis = "x" -> 1 [] axis = "y" -> 2 [] axis = "z" -> 3

AxisChars == {"x", "y", "z", "w"}

(***************************************************************************)
(* struct shaper_pulses, struct smoother (kin_shaper.h, integrate.h)       *)
(***************************************************************************)
NoPulses == [num_pulses |-> 0, pulses |-> <<>>, den |-> 1]
NoSmoother == [hst |-> 0, t_offs |-> 0]

\* init_shaper(n, a, t, sp): the amplitudes are kept as numerators over the
\* common denominator den = sum of a, so that they sum to exactly 1.
ShaperValid(n, a, t) == /\ n = Len(a)
                        /\ n = Len(t)
                        /\ n > 0 => SeqSum(a) > 0
InitShaperStatus(n, a, t) == IF ShaperValid(n, a, t) THEN 0 ELSE -1
InitShaper(n, a, t, sp) ==
    IF ShaperValid(n, a, t)
    THEN [num_pulses |-> n,
          pulses |-> [i \in 1..n |-> [t |-> t[i], a |-> a[i]]],
          den |-> IF n = 0 THEN 1 ELSE SeqSum(a)]
    ELSE sp

\* init_smoother(n, a, t_sm, sm): n polynomial coefficients, window t_sm
SmootherValid(n, a, t_sm) == /\ n = Len(a)
                             /\ n % 2 = 0
                             /\ t_sm >= 0
InitSmootherStatus(n, a, t_sm) == IF SmootherValid(n, a, t_sm) THEN 0 ELSE -1
InitSmoother(n, a, t_sm, sm) ==
    IF SmootherValid(n, a, t_sm)
    THEN [sm EXCEPT !.hst = t_sm \div 2]
    ELSE sm

(***************************************************************************)
(* struct extruder_stepper, as extruder_stepper_alloc leaves it            *)
(***************************************************************************)
AF_XYZ == {"x", "y", "z"}

\* malloc without the memset: the fields hold what the memory held
stepper_alloc_no_memset ==
    [pressure_advance |-> 0, time_offset |-> 0,
     half_smooth_time |-> 1, inv_half_smooth_time2 |-> 0,
     pa_params |-> <<0, 0, 0>>, pa_func |-> "null",
     sp |-> <<NoPulses, NoPulses>>,
     sm |-> <<NoSmoother, NoSmoother, NoSmoother>>,
     gen_steps_pre_active |-> 0, gen_steps_post_active |-> 0,
     active_flags |-> AF_XYZ]

extruder_stepper_alloc ==
    [pressure_advance |-> 0, time_offset |-> 0,
     half_smooth_time |-> 0, inv_half_smooth_time2 |-> 0,
     pa_params |-> <<0, 0, 0>>, pa_func |-> "null",
     sp |-> <<NoPulses, NoPulses>>,
     sm |-> <<NoSmoother, NoSmoother, NoSmoother>>,
     gen_steps_pre_active |-> 0, gen_steps_post_active |-> 0,
     active_flags |-> AF_XYZ]

(***************************************************************************)
(* Inputs of the configuration calls.                                      *)
(***************************************************************************)
SmoothTimes == {0, 2}
TimeOffsets == {-1, 0, 1}
PaArgs == {[n_params |-> 1, params |-> <<1, 0, 0>>],
           [n_params |-> 3, params |-> <<2, 1, 0>>]}
PaFuncs == {"linear", "tanh", "recipr"}
ShaperInputs == {[n |-> 0, a |-> <<>>, t |-> <<>>],
                 [n |-> 2, a |-> <<1, 1>>, t |-> <<-1, 1>>],
                 [n |-> 1, a |-> <<0>>, t |-> <<0>>]}
SmootherInputs == {[n |-> 2, a |-> <<1, 1>>], [n |-> 1, a |-> <<1>>]}
SmootherTimes == {0, 2}
SmootherOffsets == {-1, 0}

VARIABLES es,      \* the struct extruder_stepper
          ret,     \* what the last configuration call returned
          queue,   \* the retained moves of the trapq, oldest first
          req,     \* the arguments of the call that configured es
          res,     \* the last evaluation: its arguments and its outcome
          gen_time,   \* the time up to which steps have been generated
          head_time,  \* the time at which the first retained move starts
          steps,      \* the step times emitted so far, oldest first
          spos,       \* the position of the stepper, in steps
          twin,       \* the same run without its reconfiguration
          mcu         \* the micro-controller: its objects, timer and buses

cfgvars == <<es, ret>>
genvars == <<gen_time, head_time, steps, spos, twin>>
evalvars == <<queue, req, res, genvars, mcu>>
vars == <<es, ret, queue, req, res, genvars, mcu>>

NoReq == [pa |-> 0, smooth_time |-> 0, time_offset |-> 0, func |-> "null"]
Idle == [status |-> "idle"]
NoTwin == [status |-> "none"]
NoMcu == [shutdown |-> FALSE]

\* nothing generated yet
GenInit == /\ gen_time = 0
           /\ head_time = 0
           /\ steps = <<>>
           /\ spos = 0
           /\ twin = NoTwin
           /\ mcu = NoMcu

(***************************************************************************)
(* extruder_note_generation_time                                           *)
(***************************************************************************)
extruder_note_generation_time(e) ==
    LET pre_active == e.half_smooth_time + e.time_offset
        post_active == e.half_smooth_time - e.time_offset
    IN  [e EXCEPT !.gen_steps_pre_active =
                      IF pre_active < 0 THEN 0 ELSE pre_active,
                  !.gen_steps_post_active =
                      IF post_active < 0 THEN 0 ELSE post_active]

\* memcpy(&es->pa_params, params, n_params * sizeof(params[0]))
MemcpyParams(old, params, n_params) ==
    [i \in 1..3 |-> IF i <= n_params THEN params[i] ELSE old[i]]

(***************************************************************************)
(* extruder_set_pressure_advance                                           *)
(***************************************************************************)
set_pressure_advance_stale(e, pressure_advance, smooth_time, time_offset, n_params, params) ==
    LET hst == smooth_time \div 2
        e1 == [e EXCEPT !.half_smooth_time = hst, !.time_offset = time_offset]
    IN  IF hst = 0 THEN e1
        ELSE [e1 EXCEPT !.pa_params = MemcpyParams(@, params, n_params)]

extruder_set_pressure_advance(e, pressure_advance, smooth_time, time_offset, n_params, params) ==
    LET hst == smooth_time \div 2
        e1 == [e EXCEPT !.half_smooth_time = hst, !.time_offset = time_offset]
        e2 == extruder_note_generation_time(e1)
    IN  IF hst = 0 THEN e2
        ELSE [e2 EXCEPT !.pa_params = MemcpyParams(@, params, n_params)]

(***************************************************************************)
(* extruder_set_pressure_advance_model_func                                *)
(***************************************************************************)
set_model_func_keeps_params(e, func) ==
    [e EXCEPT !.pa_func = func]

extruder_set_pressure_advance_model_func(e, func) ==
    [e EXCEPT !.pa_params = <<0, 0, 0>>, !.pa_func = func]

(***************************************************************************)
(* extruder_set_shaper_params: the returned status and the new state       *)
(***************************************************************************)
set_shaper_params_status(axis, n, a, t) ==
    IF axis # "x" /\ axis # "y" THEN -1 ELSE InitShaperStatus(n, a, t)

\* the axis test of extruder_set_smoothing_params in its place
set_shaper_params_z_accepted(e, axis, n, a, t) ==
    IF axis # "x" /\ axis # "y" /\ axis # "z" THEN e
    ELSE extruder_note_generation_time(
             [e EXCEPT !.sp[IF axis = "z" THEN 2 ELSE AxisIdx(axis)] =
                           InitShaper(n, a, t, @)])

extruder_set_shaper_params(e, axis, n, a, t) ==
    IF axis # "x" /\ axis # "y" THEN e
    ELSE extruder_note_generation_time(
             [e EXCEPT !.sp[AxisIdx(axis)] = InitShaper(n, a, t, @)])

(***************************************************************************)
(* extruder_set_smoothing_params                                           *)
(***************************************************************************)
set_smoothing_params_status(axis, n, a, t_sm) ==
    IF axis # "x" /\ axis # "y" /\ axis # "z" THEN -1
    ELSE InitSmootherStatus(n, a, t_sm)

extruder_set_smoothing_params(e, axis, n, a, t_sm, t_offs) ==
    IF axis # "x" /\ axis # "y" /\ axis # "z" THEN e
    ELSE LET sm1 == InitSmoother(n, a, t_sm, e.sm[AxisIdx(axis)])
             sm2 == [sm1 EXCEPT !.t_offs = t_offs]
         IN  extruder_note_generation_time(
                 [e EXCEPT !.sm[AxisIdx(axis)] = sm2])

(***************************************************************************)
(* extruder_get_step_gen_window                                            *)
(***************************************************************************)
get_step_gen_window_pre_only(e) ==
    e.gen_steps_pre_active

extruder_get_step_gen_window(e) ==
    IF e.gen_steps_pre_active > e.gen_steps_post_active
    THEN e.gen_steps_pre_active ELSE e.gen_steps_post_active

(***************************************************************************)
(* The configuration state machine: the calls a host makes on one          *)
(* extruder stepper, in any order.                                         *)
(***************************************************************************)
Init == /\ es = extruder_stepper_alloc
        /\ ret = 0
        /\ queue = <<>>
        /\ req = NoReq
        /\ res = Idle
        /\ GenInit

SetPressureAdvance ==
    \E smooth_time \in SmoothTimes, time_offset \in TimeOffsets,
       pa \in PaArgs :
        /\ es' = extruder_set_pressure_advance(es, pa.params[1], smooth_time,
                                               time_offset, pa.n_params,
                                               pa.params)
        /\ ret' = 0
        /\ UNCHANGED evalvars

SetPressureAdvanceModelFunc ==
    \E func \in PaFuncs :
        /\ es' = extruder_set_pressure_advance_model_func(es, func)
        /\ ret' = 0
        /\ UNCHANGED evalvars

SetShaperParams ==
    \E axis \in AxisChars, in \in ShaperInputs :
        /\ es' = extruder_set_shaper_params(es, axis, in.n, in.a, in.t)
        /\ ret' = set_shaper_params_status(axis, in.n, in.a, in.t)
        /\ UNCHANGED evalvars

SetSmoothingParams ==
    \E axis \in AxisChars, in \in SmootherInputs,
       t_sm \in SmootherTimes, t_offs \in SmootherOffsets :
        /\ es' = extruder_set_smoothing_params(es, axis, in.n, in.a, t_sm,
                                               t_offs)
        /\ ret' = set_smoothing_params_status(axis, in.n, in.a, t_sm)
        /\ UNCHANGED evalvars

GetStepGenWindow ==
    /\ ret' = extruder_get_step_gen_window(es)
    /\ UNCHANGED <<es, evalvars>>

Next == \/ SetPressureAdvance
        \/ SetPressureAdvanceModelFunc
        \/ SetShaperParams
        \/ SetSmoothingParams
        \/ GetStepGenWindow

Spec == Init /\ [][Next]_vars

(***************************************************************************)
(* What the position function reads, relative to the time it is asked      *)
(* about: extruder_calc_position shifts the time by time_offset, and with  *)
(* smoothing pa_range_integrate shifts it again by the axis' t_offs and    *)
(* integrates over hst on either side.                                     *)
(***************************************************************************)
SetMax(S) == CHOOSE v \in S : \A w \in S : w <= v
SetMin(S) == CHOOSE v \in S : \A w \in S : v <= w

ReadOffsets(e) ==
    IF e.half_smooth_time = 0 THEN {e.time_offset}
    ELSE UNION {(e.time_offset + e.sm[i].t_offs - e.half_smooth_time) ..
                (e.time_offset + e.sm[i].t_offs + e.half_smooth_time)
                : i \in 1..3}

MaxPulseOffset(e) ==
    SetMax({0} \cup UNION {{Abs(e.sp[i].pulses[k].t)
                            : k \in 1..e.sp[i].num_pulses} : i \in 1..2})

MaxSmootherWindow(e) ==
    SetMax({Abs(e.half_smooth_time)} \cup {e.sm[i].hst : i \in 1..3})

(***************************************************************************)
(* C3: in every state the setters can reach, the generation window is at   *)
(* least max(largest |shaper pulse offset|, smoother half-window) +        *)
(* |time offset|, and every time the position function reads lies inside   *)
(* the declared window [-post_active, +pre_active].                        *)
(***************************************************************************)
C3_WindowCoversReads ==
    /\ extruder_get_step_gen_window(es)
           >= Max(MaxPulseOffset(es), MaxSmootherWindow(es))
              + Abs(es.time_offset)
    /\ \A d \in ReadOffsets(es) :
           /\ d <= es.gen_steps_pre_active
           /\ -d <= es.gen_steps_post_active

(***************************************************************************)
(* C4: the stored window is the one computed from the parameters in force: *)
(* pre_active = max(0, half_smooth_time + time_offset) and                 *)
(* post_active = max(0, half_smooth_time - time_offset), in every state    *)
(* between two calls.                                                      *)
(***************************************************************************)
C4_WindowNeverStale ==
    /\ es.gen_steps_pre_active = Max(0, es.half_smooth_time + es.time_offset)
    /\ es.gen_steps_post_active = Max(0, es.half_smooth_time - es.time_offset)

C4_Witness ==
    /\ es.half_smooth_time = 1
    /\ es.time_offset = -1
    /\ es.gen_steps_pre_active = 0
    /\ es.gen_steps_post_active = 2

(***************************************************************************)
(* The move queue (trapq.h).  A struct move is                             *)
(*   [move_t, start_v, half_accel, start_pos, axes_r]                      *)
(* with start_pos and axes_r struct coords <<x, y, z>>.  The planner       *)
(* appends moves that continue each other: a move starts where the one     *)
(* before it ends.                                                         *)
(***************************************************************************)
move_get_distance(m, move_time) ==
    (m.start_v + m.half_accel * move_time) * move_time

MoveEndPos(m) ==
    [i \in 1..3 |-> m.start_pos[i]
                    + m.axes_r[i] * move_get_distance(m, m.move_t)]

MoveTs == {1, 2}
\* start_v, half_accel: cruising, accelerating from rest, decelerating
Profiles == {<<1, 0>>, <<0, 1>>, <<2, -1>>}
\* the extruder's share of a move along +x and +y, and of one along -x
\* and +z
AxesR == {<<1, 1, 0>>, <<-1, 0, 1>>}

Segments ==
    {sg \in [move_t : MoveTs, prof : Profiles, axes_r : AxesR] :
        sg.prof[1] + 2 * sg.prof[2] * sg.move_t >= 0}

MakeMove(sg, pos) ==
    [move_t |-> sg.move_t, start_v |-> sg.prof[1], half_accel |-> sg.prof[2],
     start_pos |-> pos, axes_r |-> sg.axes_r]

\* trapq_append: the new move starts at the end position of the last one
trapq_append(q, sg) ==
    Append(q, MakeMove(sg, IF q = <<>> THEN <<0, 0, 0>>
                           ELSE MoveEndPos(q[Len(q)])))

RECURSIVE BuildQueue(_)
BuildQueue(sgs) ==
    IF sgs = <<>> THEN <<>>
    ELSE trapq_append(BuildQueue(SubSeq(sgs, 1, Len(sgs) - 1)),
                      sgs[Len(sgs)])

Queues == UNION {{BuildQueue(sgs) : sgs \in [1..n -> Segments]}
                 : n \in 1..MaxMoves}

\* the time at which move i of q starts, counted from the start of q[1]
RECURSIVE MoveStart(_, _)
MoveStart(q, i) == IF i <= 1 THEN 0 ELSE MoveStart(q, i - 1) + q[i - 1].move_t

QueueEnd(q) == MoveStart(q, Len(q) + 1)

(***************************************************************************)
(* list_prev_entry / list_next_entry.  The queue holds no move before its  *)
(* first or after its last one: the entry the list macros then compute is  *)
(* memory that is no move of the queue.  What a read of it yields is not   *)
(* defined; g is what this evaluation finds there.                         *)
(***************************************************************************)
Garbage ==
    [move_t : {1, 3}, start_v : {0}, half_accel : {0},
     start_pos : {<<0, 0, 0>>, <<7, 0, 0>>}, axes_r : {<<1, 0, 0>>}]

InQueue(q, i) == i \in 1..Len(q)
MoveAt(q, g, i) == IF InQueue(q, i) THEN q[i] ELSE g

(***************************************************************************)
(* integrate.h: the definitive integrals of                                *)
(*   position(t) = base + t * (start_v + t * half_accel)                   *)
(* and of t * position(t), from start to end, times 12.                    *)
(***************************************************************************)
Antiderivative12(base, start_v, half_accel, t) ==
    12 * base * t + 6 * start_v * t * t + 4 * half_accel * t * t * t

AntiderivativeTime12(base, start_v, half_accel, t) ==
    6 * base * t * t + 4 * start_v * t * t * t
    + 3 * half_accel * t * t * t * t

extruder_integrate12(base, start_v, half_accel, start, end) ==
    Antiderivative12(base, start_v, half_accel, end)
    - Antiderivative12(base, start_v, half_accel, start)

extruder_integrate_time12(base, start_v, half_accel, start, end) ==
    AntiderivativeTime12(base, start_v, half_accel, end)
    - AntiderivativeTime12(base, start_v, half_accel, start)

(***************************************************************************)
(* pa_move_integrate                                                       *)
(***************************************************************************)
can_pressure_advance(m) == m.axes_r[1] > 0 \/ m.axes_r[2] > 0

\* the pressure advance pa_move_integrate goes on with for move m
MovePressureAdvance(m, pressure_advance) ==
    IF ~can_pressure_advance(m) THEN 0 ELSE pressure_advance

pa_move_integrate12(m, axis, pressure_advance, base, start, end, time_offset) ==
    LET pa == MovePressureAdvance(m, pressure_advance)
        axis_r == m.axes_r[axis]
        start_v == m.start_v * axis_r
        ha == m.half_accel * axis_r
        base1 == base + pa * start_v
        start_v1 == start_v + pa * 2 * ha
        iext == extruder_integrate12(base1, start_v1, ha, start, end)
        wgt_ext == extruder_integrate_time12(base1, start_v1, ha, start, end)
    IN  wgt_ext - time_offset * iext

(***************************************************************************)
(* pa_range_integrate(m, axis, move_time, pressure_advance, hst), with sm  *)
(* the smoother of the axis.  i is the place of m in the queue.  The       *)
(* function has no return statement: what it leaves is the sum res, the    *)
(* base position start_base it adds to its output, the move and time it    *)
(* settled on, and the lowest and highest place it read.                   *)
(***************************************************************************)
RECURSIVE range_walk_prev(_, _, _, _)
range_walk_prev(q, g, i, move_time) ==
    IF move_time < 0
    THEN range_walk_prev(q, g, i - 1, move_time + MoveAt(q, g, i - 1).move_t)
    ELSE [i |-> i, t |-> move_time]

RECURSIVE range_walk_next(_, _, _, _)
range_walk_next(q, g, i, move_time) ==
    IF move_time > MoveAt(q, g, i).move_t
    THEN range_walk_next(q, g, i + 1, move_time - MoveAt(q, g, i).move_t)
    ELSE [i |-> i, t |-> move_time]

\* "Integrate over previous moves"
RECURSIVE range_integrate_prev(_, _, _, _, _, _, _, _)
range_integrate_prev(q, g, axis, pressure_advance, start_base, prev, start, acc) ==
    IF start < 0
    THEN LET p == MoveAt(q, g, prev - 1)
             start1 == start + p.move_t
             base == p.start_pos[axis] - start_base
         IN  range_integrate_prev(q, g, axis, pressure_advance, start_base,
                 prev - 1, start1,
                 acc + pa_move_integrate12(p, axis, pressure_advance, base,
                                           start1, p.move_t, start1))
    ELSE [res |-> acc, i |-> prev]

\* "Integrate over future moves"
RECURSIVE range_integrate_next(_, _, _, _, _, _, _, _)
range_integrate_next(q, g, axis, pressure_advance, start_base, i, end, acc) ==
    IF end > MoveAt(q, g, i).move_t
    THEN LET end1 == end - MoveAt(q, g, i).move_t
             n == MoveAt(q, g, i + 1)
             base == n.start_pos[axis] - start_base
         IN  range_integrate_next(q, g, axis, pressure_advance, start_base,
                 i + 1, end1,
                 acc - pa_move_integrate12(n, axis, pressure_advance, base,
                                           0, end1, end1))
    ELSE [res |-> acc, i |-> i]

pa_range_integrate(q, g, sm, i, axis, move_time0, pressure_advance, hst) ==
    LET w1 == range_walk_prev(q, g, i, move_time0 + sm.t_offs)
        w2 == range_walk_next(q, g, w1.i, w1.t)
        m == MoveAt(q, g, w2.i)
        move_time == w2.t
        start == move_time - hst
        end == move_time + hst
        start_base == m.start_pos[axis]
        cur == pa_move_integrate12(m, axis, pressure_advance, 0,
                                   start, move_time, start)
               - pa_move_integrate12(m, axis, pressure_advance, 0,
                                     move_time, end, end)
        pv == range_integrate_prev(q, g, axis, pressure_advance, start_base,
                                   w2.i, start, cur)
        nx == range_integrate_next(q, g, axis, pressure_advance, start_base,
                                   w2.i, end, pv.res)
    IN  [res |-> nx.res, start_base |-> start_base,
         i |-> w2.i, t |-> move_time,
         lo |-> Min(w1.i, pv.i), hi |-> nx.i]

(***************************************************************************)
(* extruder_calc_position(sk, m, move_time), the position times 12.        *)
(* reg says what the caller finds as the value of pa_range_integrate,      *)
(* which returns without a return statement.                               *)
(***************************************************************************)
RetRegs == {"res", "start_base"}

RECURSIVE calc_walk_prev(_, _, _, _)
calc_walk_prev(q, g, i, move_time) ==
    IF move_time < 0
    THEN calc_walk_prev(q, g, i - 1, move_time + MoveAt(q, g, i - 1).move_t)
    ELSE [i |-> i, t |-> move_time]

calc_walk_next_nosub(q, g, i, move_time) ==
    IF move_time >= MoveAt(q, g, i).move_t
    THEN [i |-> i + 1, t |-> move_time]
    ELSE [i |-> i, t |-> move_time]

RECURSIVE calc_walk_next(_, _, _, _)
calc_walk_next(q, g, i, move_time) ==
    IF move_time >= MoveAt(q, g, i).move_t
    THEN calc_walk_next(q, g, i + 1, move_time - MoveAt(q, g, i).move_t)
    ELSE [i |-> i, t |-> move_time]

extruder_calc_position(e, q, g, reg, i, move_time0) ==
    LET w1 == calc_walk_prev(q, g, i, move_time0 + e.time_offset)
        w2 == calc_walk_next(q, g, w1.i, w1.t)
        m == MoveAt(q, g, w2.i)
        move_time == w2.t
        hst == e.half_smooth_time
        move_dist == move_get_distance(m, move_time)
        Area12(r) == IF reg = "res" THEN r.res ELSE 12 * r.start_base
        Result(rng) ==
            LET e_pos == [a \in 1..3 |->
                             (IF hst = 0 THEN 12 * m.axes_r[a] * move_dist
                              ELSE Area12(rng[a]) * e.inv_half_smooth_time2)
                             + 12 * m.start_pos[a]]
            IN  [pos12 |-> e_pos[1] + e_pos[2] + e_pos[3],
                 i |-> w2.i, t |-> move_time,
                 lo |-> IF hst = 0 THEN Min(w1.i, w2.i)
                        ELSE Min(w1.i, Min(rng[1].lo,
                                           Min(rng[2].lo, rng[3].lo))),
                 hi |-> IF hst = 0 THEN w2.i
                        ELSE Max(w2.i, Max(rng[1].hi,
                                           Max(rng[2].hi, rng[3].hi)))]
    IN  \* the three integrals are computed once and then combined
        CHOOSE out \in
            {Result(rng) : rng \in
                {[a \in 1..3 |->
                     IF hst = 0 THEN [res |-> 0, start_base |-> 0]
                     ELSE pa_range_integrate(q, g, e.sm[a], w2.i, a,
                              move_time, e.pressure_advance, hst)]}} : TRUE

(***************************************************************************)
(* Evaluation of the position function: an extruder stepper configured by  *)
(* one set_pressure_advance_model_func and one set_pressure_advance call   *)
(* (req holds their arguments), a queue the planner filled, and then calls *)
(* of the position function by the step generator, for any retained move   *)
(* and any time of it.                                                     *)
(***************************************************************************)
Requests ==
    [pa : {0, 1}, smooth_time : SmoothTimes, time_offset : TimeOffsets,
     func : {"linear"}]

Configure(r) ==
    extruder_set_pressure_advance(
        extruder_set_pressure_advance_model_func(extruder_stepper_alloc,
                                                 r.func),
        r.pa, r.smooth_time, r.time_offset, 1, <<r.pa, 0, 0>>)

EvalInit == /\ req \in Requests
            /\ es = Configure(req)
            /\ ret = 0
            /\ queue \in Queues
            /\ res = Idle
            /\ GenInit

\* whether the evaluation for (i, move_time) reads outside the queue: the
\* first such read happens whatever the memory there holds
ReadsOutside(e, q, i, move_time) ==
    LET g0 == CHOOSE g \in Garbage : TRUE
        out == extruder_calc_position(e, q, g0, "res", i, move_time)
    IN  out.lo < 1 \/ out.hi > Len(q)

Returned(i, move_time, out) ==
    [status |-> "returned", m |-> i, move_time |-> move_time,
     pos12 |-> out.pos12, i |-> out.i, t |-> out.t,
     lo |-> out.lo, hi |-> out.hi]

\* the step generator calls calc_position_cb(sk, m, move_time)
CalcPosition ==
    /\ res.status = "idle"
    /\ \E i \in 1..Len(queue) : \E move_time \in 0..queue[i].move_t :
         \E g \in IF ReadsOutside(es, queue, i, move_time) THEN Garbage
                  ELSE {CHOOSE g \in Garbage : TRUE} :
           \E reg \in IF es.half_smooth_time = 0 THEN {"res"} ELSE RetRegs :
             res' = Returned(i, move_time,
                        extruder_calc_position(es, queue, g, reg, i,
                                               move_time))
    /\ UNCHANGED <<es, ret, queue, req, genvars, mcu>>

\* a read outside the queue may also trap
CalcPositionFault ==
    /\ res.status = "idle"
    /\ \E i \in 1..Len(queue) : \E move_time \in 0..queue[i].move_t :
         /\ ReadsOutside(es, queue, i, move_time)
         /\ res' = [status |-> "fault", m |-> i, move_time |-> move_time]
    /\ UNCHANGED <<es, ret, queue, req, genvars, mcu>>

\* the step generator takes the position and goes on
CalcPositionDone ==
    /\ res.status # "idle"
    /\ res' = Idle
    /\ UNCHANGED <<es, ret, queue, req, genvars, mcu>>

EvalNext == CalcPosition \/ CalcPositionFault \/ CalcPositionDone

SpecEval == EvalInit /\ [][EvalNext]_vars

(***************************************************************************)
(* The nominal extruder position and velocity at a time T counted from the *)
(* start of the queue, read off the move that contains T.                  *)
(***************************************************************************)
QueryTime == MoveStart(queue, res.m) + res.move_time + es.time_offset
InsideQueue(q, T) == 0 <= T /\ T < QueueEnd(q)

Containing(q, T) ==
    CHOOSE k \in 1..Len(q) :
        MoveStart(q, k) <= T /\ T < MoveStart(q, k) + q[k].move_t

NominalPos(q, T) ==
    LET k == Containing(q, T)
        d == move_get_distance(q[k], T - MoveStart(q, k))
    IN  (q[k].start_pos[1] + q[k].axes_r[1] * d)
        + (q[k].start_pos[2] + q[k].axes_r[2] * d)
        + (q[k].start_pos[3] + q[k].axes_r[3] * d)

NominalVelocity(q, T) ==
    LET k == Containing(q, T)
        v == q[k].start_v + 2 * q[k].half_accel * (T - MoveStart(q, k))
    IN  (q[k].axes_r[1] + q[k].axes_r[2] + q[k].axes_r[3]) * v

(***************************************************************************)
(* C1: with zero smoothing and zero pressure advance, a query whose        *)
(* shifted time lies inside the queue is normalised into the move that     *)
(* contains it and returns the raw nominal position there: the sum over    *)
(* x, y, z of start_pos + axes_r * move_get_distance.                      *)
(***************************************************************************)
C1_RawNominalPosition ==
    (/\ res.status = "returned"
     /\ es.half_smooth_time = 0
     /\ req.pa = 0
     /\ InsideQueue(queue, QueryTime))
    => /\ res.i = Containing(queue, QueryTime)
       /\ res.t = QueryTime - MoveStart(queue, res.i)
       /\ res.pos12 = 12 * NominalPos(queue, QueryTime)

C1_Witness ==
    /\ res.status = "returned"
    /\ es.half_smooth_time = 0
    /\ req.pa = 0
    /\ es.time_offset # 0
    /\ InsideQueue(queue, QueryTime)
    /\ res.i # res.m
    /\ res.t > 0
    /\ res.pos12 > 0

(***************************************************************************)
(* C2: with the linear model, coefficient k and zero smoothing, on a move  *)
(* with an XY component the position returned at time t is                 *)
(* nominal_position(t) + k * nominal_velocity(t).                          *)
(***************************************************************************)
C2_LinearAdvanceNoSmoothing ==
    (/\ res.status = "returned"
     /\ req.func = "linear"
     /\ req.smooth_time = 0
     /\ InsideQueue(queue, QueryTime)
     /\ LET m == queue[Containing(queue, QueryTime)]
        IN  m.axes_r[1] # 0 \/ m.axes_r[2] # 0)
    => res.pos12 = 12 * (NominalPos(queue, QueryTime)
                         + req.pa * NominalVelocity(queue, QueryTime))

(***************************************************************************)
(* C6: a query whose time, shifted by the time offset and widened by the   *)
(* smoothing half-window on either side, falls before the first or after   *)
(* the last retained move never returns a position.                        *)
(***************************************************************************)
C6_OutsideQueueIsFatal ==
    (/\ res.status # "idle"
     /\ \/ QueryTime - es.half_smooth_time < 0
        \/ QueryTime + es.half_smooth_time >= QueueEnd(queue))
    => res.status # "returned"


(***************************************************************************)
(* The move queue in use: the planner appends moves at the tail, the step  *)
(* generator advances through time and asks the extruder for its position, *)
(* and moves the generator has left behind are retired from the head.  A   *)
(* move is retired once it ends before the lower bound of the generation   *)
(* window the extruder declares, gen_time - gen_steps_post_active.  Times  *)
(* are counted from the start of the first move ever appended.             *)
(***************************************************************************)
MaxTime == 5

QueueOffsets == {-2, 0}
\* the planner's moves here all go along +x and +y, cruising or
\* accelerating from rest
QueueSegments ==
    {sg \in Segments : sg.axes_r = <<1, 1, 0>> /\ sg.prof[2] >= 0}

QueueInit ==
    /\ req \in {r \in Requests : r.pa = 0}
    /\ \E t_offs \in QueueOffsets :
           es = extruder_set_smoothing_params(Configure(req), "x", 2,
                                              <<1, 1>>, 2, t_offs)
    /\ ret = 0
    /\ queue = <<>>
    /\ res = Idle
    /\ GenInit

PlannerAppend ==
    /\ \E sg \in QueueSegments :
         /\ head_time + QueueEnd(queue) + sg.move_t <= MaxTime
         /\ queue' = trapq_append(queue, sg)
    /\ UNCHANGED <<es, ret, req, res, genvars, mcu>>

\* the window e declares around T lies inside the retained queue
InWindow(e, T) ==
    /\ T - e.gen_steps_post_active >= head_time
    /\ T + e.gen_steps_pre_active < head_time + QueueEnd(queue)

WindowRetained(T) == InWindow(es, T)

\* the lowest place a read of this evaluation goes to; places below 1 are
\* before the first retained move
LowestRead(e, q, i, move_time) ==
    extruder_calc_position(e, q, CHOOSE g \in Garbage : TRUE, "res", i,
                           move_time).lo

\* the generator goes on to time T and takes the position there
GenCalcPosition ==
    /\ \E T \in gen_time..(gen_time + 1) :
         /\ WindowRetained(T)
         /\ gen_time' = T
         /\ LET i == Containing(queue, T - head_time)
                move_time == T - head_time - MoveStart(queue, i)
            IN  \E g \in IF ReadsOutside(es, queue, i, move_time)
                         THEN Garbage ELSE {CHOOSE g \in Garbage : TRUE} :
                  \E reg \in IF es.half_smooth_time = 0 THEN {"res"}
                             ELSE RetRegs :
                    \/ res' = [retired |-> head_time,
                               out |-> Returned(i, move_time,
                                          extruder_calc_position(es, queue,
                                              g, reg, i, move_time))]
                    \/ /\ ReadsOutside(es, queue, i, move_time)
                       /\ res' = [retired |-> head_time,
                                  out |-> [status |-> "fault",
                                           lo |-> LowestRead(es, queue, i,
                                                             move_time)]]
    /\ UNCHANGED <<es, ret, queue, req, head_time, steps, spos, twin, mcu>>

\* the first retained move lies before the window of the generator
Retirable ==
    /\ queue # <<>>
    /\ head_time + queue[1].move_t < gen_time - es.gen_steps_post_active

Prune ==
    /\ Retirable
    /\ queue' = Tail(queue)
    /\ head_time' = head_time + queue[1].move_t
    /\ UNCHANGED <<es, ret, req, res, gen_time, steps, spos, twin, mcu>>

QueueNext == PlannerAppend \/ GenCalcPosition \/ Prune

SpecQueue == QueueInit /\ [][QueueNext]_vars

(***************************************************************************)
(* C5: no evaluation reads a move that has been retired: once moves have   *)
(* been retired from the head of the queue, every read of an evaluation    *)
(* goes to a retained move, at place 1 or after.                           *)
(***************************************************************************)
C5_NoRetiredMoveRead ==
    (res # Idle /\ res.retired > 0) => res.out.lo >= 1


(***************************************************************************)
(* pa_move_integrate on its own: one call for any move, axis, pressure     *)
(* advance and range of the move.  req holds the arguments of the call.    *)
(***************************************************************************)
\* direction ratios with x and y of either sign, and with neither
PaAxesR == AxesR \cup {<<0, -1, 0>>, <<0, 0, 1>>, <<0, 0, -1>>}

PaMoves ==
    {MakeMove([move_t |-> 2, prof |-> pr, axes_r |-> r], <<0, 0, 0>>)
        : pr \in {<<1, 0>>, <<0, 1>>}, r \in PaAxesR}

PaCalls ==
    [m : PaMoves, axis : 1..3, pressure_advance : {0, 1, 2}, base : {0, 1},
     start : {0, 1}, end : {2}, time_offset : {0, 1}]

PaInit == /\ req \in PaCalls
          /\ es = extruder_stepper_alloc
          /\ ret = 0
          /\ queue = <<>>
          /\ res = Idle
          /\ GenInit

PaMoveIntegrate ==
    /\ res = Idle
    /\ res' = [status |-> "returned",
               val |-> pa_move_integrate12(req.m, req.axis,
                           req.pressure_advance, req.base, req.start,
                           req.end, req.time_offset)]
    /\ UNCHANGED <<es, ret, queue, req, genvars, mcu>>

PaNext == PaMoveIntegrate

SpecPA == PaInit /\ [][PaNext]_vars

\* the integral the call gives when it goes on with the advance pa: that of
\* t * position(t) less time_offset times that of position(t), position
\* being the move's along the axis, advanced by pa times its velocity
AdvancedIntegral12(c, pa) ==
    LET v == c.m.start_v * c.m.axes_r[c.axis]
        a == c.m.half_accel * c.m.axes_r[c.axis]
    IN  extruder_integrate_time12(c.base + pa * v, v + 2 * pa * a, a,
                                  c.start, c.end)
        - c.time_offset
          * extruder_integrate12(c.base + pa * v, v + 2 * pa * a, a,
                                 c.start, c.end)

HasXY(m) == m.axes_r[1] # 0 \/ m.axes_r[2] # 0

(***************************************************************************)
(* C7: pa_move_integrate goes on with the configured pressure advance      *)
(* exactly when the move has a nonzero x or y direction ratio, of either   *)
(* sign, and with a pressure advance of 0 when both are zero.              *)
(***************************************************************************)
C7_AdvanceIffXYComponent ==
    res # Idle =>
        res.val = AdvancedIntegral12(req, IF HasXY(req.m)
                                          THEN req.pressure_advance ELSE 0)


(***************************************************************************)
(* The same trajectory cut in two ways: queue holds a move between a       *)
(* leading and a trailing one, and SplitQueue holds the same moves with    *)
(* one of them cut in two at a time inside it.  The position function is   *)
(* asked about the same time on both.                                      *)
(***************************************************************************)
\* the part of move m before time s, and the part from s on
MoveHead(m, s) == [m EXCEPT !.move_t = s]
MoveTail(m, s) ==
    [m EXCEPT !.move_t = m.move_t - s,
              !.start_v = m.start_v + 2 * m.half_accel * s,
              !.start_pos = [a \in 1..3 |->
                  m.start_pos[a] + m.axes_r[a] * move_get_distance(m, s)]]

SplitQueue(q, k, s) ==
    SubSeq(q, 1, k - 1) \o <<MoveHead(q[k], s), MoveTail(q[k], s)>>
    \o SubSeq(q, k + 1, Len(q))

\* the cuts of q: a move and a time strictly inside it
Cuts(q) == {c \in [k : 1..Len(q), s : 1..2] : c.s < q[c.k].move_t}

SplitSegments == {sg \in Segments : sg.axes_r = <<1, 1, 0>>}

SplitInit ==
    /\ req \in Requests
    /\ es = Configure(req)
    /\ ret = 0
    /\ queue \in {BuildQueue(sgs) : sgs \in [1..3 -> SplitSegments]}
    /\ res = Idle
    /\ GenInit

\* extruder_calc_position for the time T of queue q
PositionAt(e, q, reg, T) ==
    LET i == Containing(q, T)
    IN  extruder_calc_position(e, q, CHOOSE g \in Garbage : TRUE, reg, i,
                               T - MoveStart(q, i))

ReadsInside(e, q, T) ==
    LET i == Containing(q, T)
    IN  ~ReadsOutside(e, q, i, T - MoveStart(q, i))

CalcPositionBoth ==
    /\ res = Idle
    /\ \E T \in 0..(QueueEnd(queue) - 1), c \in Cuts(queue),
          reg \in IF es.half_smooth_time = 0 THEN {"res"} ELSE RetRegs :
         /\ ReadsInside(es, queue, T)
         /\ ReadsInside(es, SplitQueue(queue, c.k, c.s), T)
         /\ res' = [status |-> "returned", T |-> T, cut |-> c,
                    whole |-> PositionAt(es, queue, reg, T),
                    split |-> PositionAt(es, SplitQueue(queue, c.k, c.s),
                                         reg, T)]
    /\ UNCHANGED <<es, ret, queue, req, genvars, mcu>>

SplitNext == CalcPositionBoth

SpecSplit == SplitInit /\ [][SplitNext]_vars

(***************************************************************************)
(* C8: cutting one move of the trajectory in two contiguous moves leaves   *)
(* the position extruder_calc_position returns for a time unchanged.       *)
(***************************************************************************)
C8_SplitInvariant ==
    res # Idle => res.whole.pos12 = res.split.pos12


(***************************************************************************)
(* Step generation (itersolve).  The solver follows the position function  *)
(* of the extruder through time and emits one step, stamped with the time  *)
(* of the crossing, whenever the position crosses a step boundary.  Time   *)
(* advances in ticks; the moves here cruise at one step per tick, forwards *)
(* or backwards, so that a position function that follows the trajectory   *)
(* crosses at most one boundary per tick, and crossings that fall on the   *)
(* same tick are crossings at the same instant.                            *)
(***************************************************************************)
\* step_dist, times 12
StepDist12 == 24

GenSegments ==
    [move_t : MoveTs, prof : {<<1, 0>>},
     axes_r : {<<1, 1, 0>>, <<-1, -1, 0>>}]

GenQueues == UNION {{BuildQueue(sgs) : sgs \in [1..n -> GenSegments]}
                    : n \in 2..3}

\* the stepper position, in steps, for a position
StepsOf(pos12) == pos12 \div StepDist12

\* the first time the window of e lies inside the queue
GenStart(e) == e.gen_steps_post_active

GenStepsInit ==
    /\ req \in {r \in Requests : r.pa = 0}
    /\ es = Configure(req)
    /\ ret = 0
    /\ queue \in GenQueues
    /\ res = Idle
    /\ gen_time = GenStart(es)
    /\ head_time = 0
    /\ steps = <<>>
    /\ InWindow(es, gen_time)
    /\ spos = StepsOf(PositionAt(es, queue, "res", gen_time).pos12)
    /\ twin = NoTwin
    /\ mcu = NoMcu

\* the steps the solver emits when the position goes from step count from
\* to step count to in the tick that ends at T
EmitStepsAtPassStart(from, to, T) == [j \in 1..Abs(to - from) |-> T - 1]

EmitSteps(from, to, T) == [j \in 1..Abs(to - from) |-> T]

\* the position of e at T, for every outcome of the evaluation; an
\* evaluation that reads outside the queue finds some g there
Positions12(e, T) ==
    LET i == Containing(queue, T)
        move_time == T - MoveStart(queue, i)
    IN  {extruder_calc_position(e, queue, g, reg, i, move_time).pos12 :
            g \in IF ReadsOutside(e, queue, i, move_time) THEN Garbage
                  ELSE {CHOOSE g \in Garbage : TRUE},
            reg \in IF e.half_smooth_time = 0 THEN {"res"} ELSE RetRegs}

\* one pass of the generator, over the next tick; the run without the
\* reconfiguration makes the same pass with its own configuration
GenerateSteps ==
    LET T == gen_time + 1
    IN  /\ res = Idle
        /\ InWindow(es, T)
        /\ twin.status = "forked" => InWindow(twin.es, T)
        /\ gen_time' = T
        /\ \E p \in Positions12(es, T) :
             /\ steps' = steps \o EmitSteps(spos, StepsOf(p), T)
             /\ spos' = StepsOf(p)
        /\ IF twin.status = "forked"
           THEN \E p \in Positions12(twin.es, T) :
                  twin' = [twin EXCEPT
                              !.steps = @ \o EmitSteps(twin.spos,
                                                       StepsOf(p), T),
                              !.spos = StepsOf(p)]
           ELSE twin' = twin
        /\ UNCHANGED <<es, ret, queue, req, res, head_time, mcu>>

\* a reconfiguration between two passes; from here on twin is the run
\* that goes on without it
Fork == [status |-> "forked", es |-> es, steps |-> steps, spos |-> spos,
         boundary |-> gen_time]

ReconfPressureAdvance ==
    /\ twin = NoTwin
    /\ mcu = NoMcu
    /\ res = Idle
    /\ \E smooth_time \in SmoothTimes, time_offset \in TimeOffsets :
         es' = extruder_set_pressure_advance(es, 0, smooth_time,
                                             time_offset, 1, <<0, 0, 0>>)
    /\ es' # es
    /\ twin' = Fork
    /\ UNCHANGED <<ret, queue, req, res, gen_time, head_time, steps, spos, mcu>>

ReconfSmoother ==
    /\ twin = NoTwin
    /\ mcu = NoMcu
    /\ res = Idle
    /\ \E t_offs \in SmootherOffsets :
         es' = extruder_set_smoothing_params(es, "x", 2, <<1, 1>>, 2, t_offs)
    /\ twin' = Fork
    /\ UNCHANGED <<ret, queue, req, res, gen_time, head_time, steps, spos, mcu>>

ReconfShaper ==
    /\ twin = NoTwin
    /\ mcu = NoMcu
    /\ res = Idle
    /\ es' = extruder_set_shaper_params(es, "x", 2, <<1, 1>>, <<-1, 1>>)
    /\ twin' = Fork
    /\ UNCHANGED <<ret, queue, req, res, gen_time, head_time, steps, spos, mcu>>

GenNext == \/ GenerateSteps
           \/ ReconfPressureAdvance
           \/ ReconfSmoother
           \/ ReconfShaper

SpecGen == GenStepsInit /\ [][GenNext]_vars


StrictlyIncreasing(s) == \A j \in 1..(Len(s) - 1) : s[j] < s[j + 1]

\* the step distance the position function of e covers from the start of
\* generation to T, each tick counted by the steps it moves, in either
\* direction
RECURSIVE StepDistance(_, _)
StepDistance(e, T) ==
    IF T <= GenStart(e) THEN 0
    ELSE StepDistance(e, T - 1)
         + Abs(StepsOf(PositionAt(e, queue, "res", T).pos12)
               - StepsOf(PositionAt(e, queue, "res", T - 1).pos12))

(***************************************************************************)
(* C9: in a run of the generator with one configuration, the step times    *)
(* emitted so far are strictly increasing, with no duplicates, and there   *)
(* are as many of them as the step distance the position function has      *)
(* covered.                                                                *)
(***************************************************************************)
C9_StepTimesStrictlyIncreasing ==
    twin = NoTwin =>
        /\ StrictlyIncreasing(steps)
        /\ Len(steps) = StepDistance(es, gen_time)

\* the steps of s with a time up to b
StepsUpTo(s, b) == SelectSeq(s, LAMBDA x : x <= b)

NoCall == [op |-> "none"]

CallSmoothTimes == SmoothTimes \cup {-2}
CallTimeOffsets == {0, 1}
CallFuncs == {"linear", "recipr"}
CallShaperAxes == {"x", "z", "w"}
CallSmootherAxes == {"x", "w"}
CallSmootherTimes == {-2, 2}

CallInit == /\ es = extruder_stepper_alloc
            /\ ret = 0
            /\ queue = <<>>
            /\ req = NoCall
            /\ res = Idle
            /\ GenInit

CallSetPressureAdvance ==
    /\ \E smooth_time \in CallSmoothTimes, time_offset \in CallTimeOffsets,
          pa \in PaArgs :
         /\ es' = extruder_set_pressure_advance(es, pa.params[1],
                      smooth_time, time_offset, pa.n_params, pa.params)
         /\ req' = [op |-> "set_pressure_advance",
                    smooth_time |-> smooth_time,
                    time_offset |-> time_offset,
                    n_params |-> pa.n_params, params |-> pa.params,
                    old |-> es]
    /\ ret' = 0
    /\ UNCHANGED <<queue, res, genvars, mcu>>

CallSetPressureAdvanceModelFunc ==
    /\ \E func \in CallFuncs :
         /\ es' = extruder_set_pressure_advance_model_func(es, func)
         /\ req' = [op |-> "set_pressure_advance_model_func",
                    func |-> func, old |-> es]
    /\ ret' = 0
    /\ UNCHANGED <<queue, res, genvars, mcu>>

CallSetShaperParams ==
    /\ \E axis \in CallShaperAxes, in \in ShaperInputs :
         /\ es' = extruder_set_shaper_params(es, axis, in.n, in.a, in.t)
         /\ ret' = set_shaper_params_status(axis, in.n, in.a, in.t)
         /\ req' = [op |-> "set_shaper_params", axis |-> axis,
                    n |-> in.n, a |-> in.a, t |-> in.t, old |-> es]
    /\ UNCHANGED <<queue, res, genvars, mcu>>

CallSetSmoothingParams ==
    /\ \E axis \in CallSmootherAxes, in \in SmootherInputs,
          t_sm \in CallSmootherTimes, t_offs \in SmootherOffsets :
         /\ es' = extruder_set_smoothing_params(es, axis, in.n, in.a, t_sm,
                                                t_offs)
         /\ ret' = set_smoothing_params_status(axis, in.n, in.a, t_sm)
         /\ req' = [op |-> "set_smoothing_params", axis |-> axis,
                    n |-> in.n, a |-> in.a, t_sm |-> t_sm,
                    t_offs |-> t_offs, old |-> es]
    /\ UNCHANGED <<queue, res, genvars, mcu>>

CallNext == \/ CallSetPressureAdvance
            \/ CallSetPressureAdvanceModelFunc
            \/ CallSetShaperParams
            \/ CallSetSmoothingParams

SpecCall == CallInit /\ [][CallNext]_vars

(***************************************************************************)
(* C11: when extruder_set_pressure_advance returns, the stored parameters, *)
(* half_smooth_time (= smooth_time / 2), time_offset and the generation    *)
(* window are those of the arguments of the call, for every smooth_time,   *)
(* 0 included.                                                             *)
(***************************************************************************)
C11_WholeSnapshotApplied ==
    req.op = "set_pressure_advance" =>
        /\ \A k \in 1..req.n_params : es.pa_params[k] = req.params[k]
        /\ es.half_smooth_time = req.smooth_time \div 2
        /\ es.time_offset = req.time_offset
        /\ es.gen_steps_pre_active
               = Max(0, es.half_smooth_time + es.time_offset)
        /\ es.gen_steps_post_active
               = Max(0, es.half_smooth_time - es.time_offset)


(***************************************************************************)
(* C14: a negative smoothing time is rejected: the call reports an error   *)
(* and half_smooth_time is negative in no reachable state.                 *)
(***************************************************************************)
C14_NegativeSmoothTimeRejected ==
    /\ es.half_smooth_time >= 0
    /\ (req.op = "set_pressure_advance" /\ req.smooth_time < 0) => ret # 0
    /\ (req.op = "set_smoothing_params" /\ req.t_sm < 0) => ret # 0

(***************************************************************************)
(* C15: extruder_set_shaper_params with an axis other than 'x' or 'y' and  *)
(* extruder_set_smoothing_params with an axis other than 'x', 'y' or 'z'   *)
(* return -1 and leave the struct extruder_stepper as it was.              *)
(***************************************************************************)
InvalidAxisCall ==
    \/ req.op = "set_shaper_params" /\ req.axis \notin {"x", "y"}
    \/ req.op = "set_smoothing_params" /\ req.axis \notin {"x", "y", "z"}

C15_InvalidAxisNoEffect ==
    InvalidAxisCall => (ret = -1 /\ es = req.old)

C15_Witness ==
    /\ req.op = "set_shaper_params"
    /\ req.axis = "z"
    /\ req.n = 2
    /\ ret = -1
    /\ es = req.old
    /\ es.sp[1].num_pulses = 2
    /\ es.half_smooth_time # 0

(***************************************************************************)
(* C16: when extruder_set_shaper_params or extruder_set_smoothing_params   *)
(* returns a nonzero status, the struct extruder_stepper is exactly what   *)
(* it was before the call, the smoother's t_offs and the generation window *)
(* included.                                                               *)
(***************************************************************************)
C16_RejectedLeavesSnapshot ==
    (req.op \in {"set_shaper_params", "set_smoothing_params"} /\ ret # 0)
    => es = req.old


(***************************************************************************)
(* C13: a set-pressure-advance call that gives a saturating model (tanh or *)
(* reciprocal) a zero linearization_velocity with a nonzero linear_offset  *)
(* reports an error and leaves the stored parameters as they were, so the  *)
(* extruder never holds a saturating model with linearization_velocity = 0 *)
(* and linear_offset # 0.                                                  *)
(***************************************************************************)
Saturating(e) == e.pa_func \in {"tanh", "recipr"}

C13_ZeroLinearizationVelocityRejected ==
    /\ (/\ req.op = "set_pressure_advance"
        /\ Saturating(req.old)
        /\ req.n_params = 3
        /\ req.params[2] # 0
        /\ req.params[3] = 0)
       => (ret # 0 /\ es.pa_params = req.old.pa_params)
    /\ ~(Saturating(es) /\ es.pa_params[2] # 0 /\ es.pa_params[3] = 0)

(***************************************************************************)
(* C18: after a set-pressure-advance call with a positive smoothing time   *)
(* the normalisation factor of the weighted integral satisfies             *)
(* inv_half_smooth_time2 * half_smooth_time^2 = 1.                         *)
(***************************************************************************)
C18_KernelIntegratesToOne ==
    (req.op = "set_pressure_advance" /\ es.half_smooth_time > 0)
    => es.inv_half_smooth_time2 * es.half_smooth_time * es.half_smooth_time
       = 1

(***************************************************************************)
(* C19: extruder_calc_position is a pure function of the move queue, the   *)
(* query time and the configuration snapshot: it leaves the configuration  *)
(* as it was set, and every call with the same queue, the same time and    *)
(* the same configuration returns the position the last call returned.     *)
(***************************************************************************)
SamePosition(i, move_time, pos12) ==
    \A g \in Garbage :
        \A reg \in IF es.half_smooth_time = 0 THEN {"res"} ELSE RetRegs :
            extruder_calc_position(es, queue, g, reg, i, move_time).pos12
            = pos12

C19_EvaluationIsPure ==
    res.status = "returned"
    => /\ es = Configure(req)
       /\ SamePosition(res.m, res.move_time, res.pos12)

(***************************************************************************)
(* The pressure advance model functions.  A double is                      *)
(*   [k |-> "fin", n, d]   the number n / d, with d > 0,                   *)
(*   [k |-> "inf", s]      plus (s = 1) or minus (s = -1) infinity,        *)
(*   [k |-> "nan"],                                                        *)
(*   [k |-> "tanh", base, lo, n, d]   the number base + lo * tanh(n / d),  *)
(*                                    n / d neither 0 nor infinite.        *)
(* pa_params is <<params[0], params[1], params[2]>>: the union makes       *)
(* pressure_advance and linear_advance both params[0], linear_offset       *)
(* params[1] and linearization_velocity params[2].                         *)
(***************************************************************************)
Fin(n, d) == IF d < 0 THEN [k |-> "fin", n |-> -n, d |-> -d]
             ELSE [k |-> "fin", n |-> n, d |-> d]
Inf(s) == [k |-> "inf", s |-> s]
NaN == [k |-> "nan"]
Sign(v) == IF v < 0 THEN -1 ELSE IF v > 0 THEN 1 ELSE 0

\* a / b for doubles that hold the integers a and b
DoubleDiv(a, b) ==
    IF b # 0 THEN Fin(a, b)
    ELSE IF a = 0 THEN NaN ELSE Inf(Sign(a))

pressure_advance_linear_model_func(position, pa_velocity, pa_params) ==
    Fin(position + pa_velocity * pa_params[1], 1)

pressure_advance_tanh_model_func(position, pa_velocity, pa_params) ==
    LET position1 == position + pa_params[1] * pa_velocity
        rel_velocity == DoubleDiv(pa_velocity, pa_params[3])
    IN  IF pa_params[2] = 0 THEN Fin(position1, 1)
        ELSE CASE rel_velocity.k = "nan" -> NaN
               [] rel_velocity.k = "inf" ->
                      Fin(position1 + pa_params[2] * rel_velocity.s, 1)
               [] rel_velocity.k = "fin" /\ rel_velocity.n = 0 ->
                      Fin(position1, 1)
               [] OTHER ->
                      [k |-> "tanh", base |-> position1, lo |-> pa_params[2],
                       n |-> rel_velocity.n, d |-> rel_velocity.d]

\* position + linear_offset * (1. - 1. / (1. + rel_velocity))
RecipSaturation(position1, linear_offset, rel_velocity) ==
    CASE rel_velocity.k = "nan" -> NaN
      [] rel_velocity.k = "inf" -> Fin(position1 + linear_offset, 1)
      [] rel_velocity.n + rel_velocity.d = 0 -> Inf(-Sign(linear_offset))
      [] OTHER ->
             Fin(position1 * (rel_velocity.n + rel_velocity.d)
                 + linear_offset * rel_velocity.n,
                 rel_velocity.n + rel_velocity.d)

recipr_model_func_unguarded(position, pa_velocity, pa_params) ==
    RecipSaturation(position + pa_params[1] * pa_velocity, pa_params[2],
                    DoubleDiv(pa_velocity, pa_params[3]))

pressure_advance_recipr_model_func(position, pa_velocity, pa_params) ==
    LET position1 == position + pa_params[1] * pa_velocity
    IN  IF pa_params[2] = 0 THEN Fin(position1, 1)
        ELSE RecipSaturation(position1, pa_params[2],
                             DoubleDiv(pa_velocity, pa_params[3]))

\* the call through the pressure_advance_func pointer
PaFuncCall(func, position, pa_velocity, pa_params) ==
    CASE func = "linear" ->
             pressure_advance_linear_model_func(position, pa_velocity,
                                                pa_params)
      [] func = "tanh" ->
             pressure_advance_tanh_model_func(position, pa_velocity,
                                              pa_params)
      [] func = "recipr" ->
             pressure_advance_recipr_model_func(position, pa_velocity,
                                                pa_params)

\* one call of a model function, for any position, velocity and parameters
ModelCalls ==
    [func : PaFuncs, position : {0, 3}, pa_velocity : {-2, -1, 0, 1, 2},
     params : {<<la, lo, lv>> : la \in {0, 2}, lo \in {-1, 0, 1},
                                lv \in {0, 1, 2}}]

ModelInit == /\ req \in ModelCalls
             /\ es = extruder_stepper_alloc
             /\ ret = 0
             /\ queue = <<>>
             /\ res = Idle
             /\ GenInit

ModelFuncCall ==
    /\ res = Idle
    /\ res' = [status |-> "returned",
               val |-> PaFuncCall(req.func, req.position, req.pa_velocity,
                                  req.params)]
    /\ UNCHANGED <<es, ret, queue, req, genvars, mcu>>

ModelNext == ModelFuncCall

SpecModel == ModelInit /\ [][ModelNext]_vars

(***************************************************************************)
(* C12: for every velocity and every parameter set with a nonzero          *)
(* linearization_velocity, pressure_advance_recipr_model_func returns a    *)
(* finite position: the denominator 1 + velocity / linearization_velocity  *)
(* is never 0.                                                             *)
(***************************************************************************)
C12_RecipNeverDividesByZero ==
    (res # Idle /\ req.func = "recipr" /\ req.params[3] # 0)
    => res.val.k = "fin"

(***************************************************************************)
(* C20: with linear_offset = 0 the tanh and the reciprocal model return    *)
(* exactly position + linear_advance * velocity, the value of the linear   *)
(* model with pressure_advance = linear_advance, whatever                  *)
(* linearization_velocity is.                                              *)
(***************************************************************************)
C20_ZeroOffsetIsLinear ==
    (res # Idle /\ req.func \in {"tanh", "recipr"} /\ req.params[2] = 0)
    => /\ res.val = Fin(req.position + req.params[1] * req.pa_velocity, 1)
       /\ res.val = pressure_advance_linear_model_func(req.position,
                        req.pa_velocity, req.params)

C20_Witness ==
    /\ res # Idle
    /\ req.func = "recipr"
    /\ req.params = <<2, 0, 0>>
    /\ req.pa_velocity = -1
    /\ req.position = 3
    /\ res.val = Fin(1, 1)


(***************************************************************************)
(* shaper_pa_range_integrate(m, axis, move_time, sp, sm, pos_integral,     *)
(* pa_velocity_integral).  p_pos_int and p_pa_vel_int are declared without *)
(* a value in each pass of the loop; pa_range_integrate adds the           *)
(* start_base of the move it settles on to the first, leaves the second    *)
(* alone and drops its sum res.  u[k] and v[k] are what pass k finds in    *)
(* them.  The integrals are numerators over the common denominator sp.den  *)
(* of the amplitudes.                                                      *)
(***************************************************************************)
Uninit == {0, 5}

\* the move pa_range_integrate settles on and the start_base it adds
pa_range_start_base(q, g, sm, i, axis, move_time0) ==
    LET w1 == range_walk_prev(q, g, i, move_time0 + sm.t_offs)
        w2 == range_walk_next(q, g, w1.i, w1.t)
    IN  [start_base |-> MoveAt(q, g, w2.i).start_pos[axis], i |-> w2.i]

shaper_pa_range_integrate(q, g, i, axis, move_time, sp, sm, u, v) ==
    LET P == [k \in 1..sp.num_pulses |->
                  pa_range_start_base(q, g, sm, i, axis,
                                      move_time + sp.pulses[k].t)]
        p_pos_int == [k \in 1..sp.num_pulses |-> u[k] + P[k].start_base]
        p_pa_vel_int == [k \in 1..sp.num_pulses |-> v[k]]
    IN  [pos_integral |->
             SeqSum([k \in 1..sp.num_pulses |->
                         sp.pulses[k].a * p_pos_int[k]]),
         pa_velocity_integral |->
             SeqSum([k \in 1..sp.num_pulses |->
                         sp.pulses[k].a * p_pa_vel_int[k]]),
         places |-> {P[k].i : k \in 1..sp.num_pulses}]

(***************************************************************************)
(* The shaped evaluation: an extruder whose x shaper and smoother the host *)
(* configures, and a queue whose first move is a dwell at a held position. *)
(***************************************************************************)
HeldPositions == {0, 3}
DwellSegments == [move_t : {3}, prof : {<<0, 0>>}, axes_r : {<<1, 1, 0>>}]
\* what the walks find off the queue
ShapedGarbage == {g \in Garbage : g.move_t = 3}
ShapedSegments ==
    DwellSegments \cup {[move_t |-> 2, prof |-> <<1, 0>>,
                         axes_r |-> <<1, 1, 0>>]}
ShapedQueues ==
    {trapq_append(<<MakeMove(sg1, <<c, c, 0>>)>>, sg2) :
        c \in HeldPositions, sg1 \in DwellSegments, sg2 \in ShapedSegments}

ShapedInit == /\ es = extruder_stepper_alloc
              /\ ret = 0
              /\ queue \in ShapedQueues
              /\ req = NoCall
              /\ res = Idle
              /\ GenInit

\* the shapers the host sets here, the single pulse (t = 0, a = 1) included
ShapedShaperInputs == ShaperInputs \cup {[n |-> 1, a |-> <<1>>, t |-> <<0>>]}

ShapedSetShaperParams ==
    /\ \E inp \in ShapedShaperInputs :
         /\ es' = extruder_set_shaper_params(es, "x", inp.n, inp.a, inp.t)
         /\ ret' = set_shaper_params_status("x", inp.n, inp.a, inp.t)
         /\ req' = [op |-> "set_shaper_params", axis |-> "x", n |-> inp.n,
                    a |-> inp.a, t |-> inp.t]
    /\ res' = Idle
    /\ UNCHANGED <<queue, genvars, mcu>>

ShapedSetSmoothingParams ==
    /\ \E inp \in SmootherInputs, t_offs \in SmootherOffsets :
         /\ es' = extruder_set_smoothing_params(es, "x", inp.n, inp.a, 2,
                                                t_offs)
         /\ ret' = set_smoothing_params_status("x", inp.n, inp.a, 2)
         /\ req' = [op |-> "set_smoothing_params", axis |-> "x",
                    n |-> inp.n, a |-> inp.a, t_sm |-> 2,
                    t_offs |-> t_offs]
    /\ res' = Idle
    /\ UNCHANGED <<queue, genvars, mcu>>

ShaperPaRangeIntegrate ==
    /\ res = Idle
    /\ \E i \in 1..Len(queue), g \in ShapedGarbage,
          u \in [1..es.sp[1].num_pulses -> Uninit],
          v \in {[k \in 1..es.sp[1].num_pulses |-> x] : x \in Uninit} :
         \E move_time \in 0..(queue[i].move_t - 1) :
            LET out == shaper_pa_range_integrate(queue, g, i, 1, move_time,
                           es.sp[1], es.sm[1], u, v)
            IN  res' = [status |-> "returned", m |-> i,
                        move_time |-> move_time,
                        pos_integral |-> out.pos_integral,
                        pa_velocity_integral |-> out.pa_velocity_integral,
                        places |-> out.places]
    /\ UNCHANGED <<es, ret, queue, req, genvars, mcu>>

ShapedReturn ==
    /\ res # Idle
    /\ res' = Idle
    /\ UNCHANGED <<es, ret, queue, req, genvars, mcu>>

ShapedNext == \/ ShapedSetShaperParams
              \/ ShapedSetSmoothingParams
              \/ ShaperPaRangeIntegrate
              \/ ShapedReturn

SpecShaped == ShapedInit /\ [][ShapedNext]_vars

\* the sum of the stored amplitudes of sp, over sp.den
AmplitudeSum(sp) == SeqSum([k \in 1..sp.num_pulses |-> sp.pulses[k].a])

\* every pulse time of the last evaluation falls in a move of the queue
\* that dwells at position c of the x axis
HeldAt(c) ==
    \A k \in res.places :
        /\ InQueue(queue, k)
        /\ queue[k].start_v = 0
        /\ queue[k].half_accel = 0
        /\ queue[k].start_pos[1] = c

(***************************************************************************)
(* C17: after every accepted extruder_set_shaper_params call the stored    *)
(* amplitudes of the axis sum to exactly 1, and shaper_pa_range_integrate  *)
(* applied to a position that is the same constant c at every pulse time   *)
(* returns c.                                                              *)
(***************************************************************************)
C17_ShaperPreservesDisplacement ==
    /\ (req.op = "set_shaper_params" /\ ret = 0 /\ req.axis = "x"
        /\ req.n > 0)
       => AmplitudeSum(es.sp[1]) = es.sp[1].den
    /\ \A c \in HeldPositions :
         (res # Idle /\ es.sp[1].num_pulses > 0 /\ HeldAt(c))
         => res.pos_integral = c * es.sp[1].den


(***************************************************************************)
(* C21: smoothing preserves constant velocity.  For a move with zero       *)
(* acceleration and a query whose whole smoothing window lies inside that  *)
(* move, the position extruder_calc_position returns with a nonzero        *)
(* smoothing time is the raw nominal position at the query time.           *)
(***************************************************************************)
C21_SmoothingPreservesConstantVelocity ==
    (/\ res.status = "returned"
     /\ es.half_smooth_time > 0
     /\ req.pa = 0
     /\ InQueue(queue, res.i)
     /\ queue[res.i].half_accel = 0
     /\ res.t - es.half_smooth_time >= 0
     /\ res.t + es.half_smooth_time <= queue[res.i].move_t)
    => res.pos12 = 12 * NominalPos(queue, QueryTime)


(***************************************************************************)
(* The loops that walk the queue, one pass of a loop at a time.            *)
(*   "calc"   extruder_calc_position: move_time += es->time_offset, then   *)
(*            the loops of lines 175-182;                                  *)
(*   "range"  pa_range_integrate: move_time += sm->t_offs, the loops of    *)
(*            lines 63-70, then "Integrate over previous moves" from       *)
(*            start = move_time - hst (80-86) and "Integrate over future   *)
(*            moves" up to end = move_time + hst (88-95).                  *)
(* res holds the call (kind, m, move_time, offs, hst), the loop it is in   *)
(* (status), the place i and the local time t of the loop, the place ni    *)
(* and time nt the normalisation ended on, and the places the running loop *)
(* has been at (path).  A loop that steps off the queue reads memory that  *)
(* is no move: the walk is then "outside".                                 *)
(***************************************************************************)
MaxWalkMoves == 3
WalkMoveTs == {0, 1}
WalkOffsets == {-1, 0, 1}
WalkHsts == {0, 1}
WalkSegments == [move_t : WalkMoveTs, prof : {<<1, 0>>}, axes_r : {<<1, 1, 0>>}]
WalkQueues ==
    UNION {{BuildQueue(sgs) : sgs \in [1..n -> WalkSegments]}
           : n \in 1..MaxWalkMoves}

\* m = list_prev_entry(m, node); move_time += m->move_t;
walk_prev(q, i, t) == [i |-> i - 1, t |-> t + q[i - 1].move_t]

\* a pass that goes on to the next move only when the time has changed
walk_next_skip_empty(q, i, t) ==
    [i |-> IF q[i].move_t = 0 THEN i ELSE i + 1, t |-> t - q[i].move_t]

\* move_time -= m->move_t; m = list_next_entry(m, node);
walk_next(q, i, t) == [i |-> i + 1, t |-> t - q[i].move_t]

WalkInit == /\ es = extruder_stepper_alloc
            /\ ret = 0
            /\ queue \in WalkQueues
            /\ req = NoCall
            /\ res = Idle
            /\ GenInit

WalkCall ==
    /\ res = Idle
    /\ \E kind \in {"calc", "range"}, m \in 1..Len(queue),
          offs \in WalkOffsets :
         \E move_time \in 0..queue[m].move_t,
            hst \in IF kind = "calc" THEN {0} ELSE WalkHsts :
            res' = [status |-> "prev", kind |-> kind, m |-> m,
                    move_time |-> move_time, offs |-> offs, hst |-> hst,
                    i |-> m, t |-> move_time + offs, ni |-> 0, nt |-> 0,
                    path |-> <<m>>]
    /\ UNCHANGED <<es, ret, queue, req, genvars, mcu>>

\* while (unlikely(move_time < 0.))
WalkPrevLoop ==
    /\ res # Idle
    /\ res.status = "prev"
    /\ res' = IF res.t < 0
              THEN IF res.i = 1 THEN [res EXCEPT !.status = "outside"]
                   ELSE LET w == walk_prev(queue, res.i, res.t)
                        IN  [res EXCEPT !.i = w.i, !.t = w.t,
                                        !.path = Append(@, w.i)]
              ELSE [res EXCEPT !.status = "next", !.path = <<res.i>>]
    /\ UNCHANGED <<es, ret, queue, req, genvars, mcu>>

\* while (unlikely(move_time >= m->move_t)), with > in pa_range_integrate
WalkNextLoop ==
    /\ res # Idle
    /\ res.status = "next"
    /\ LET goes_on == IF res.kind = "calc"
                      THEN res.t >= queue[res.i].move_t
                      ELSE res.t > queue[res.i].move_t
       IN  res' =
             IF goes_on
             THEN IF res.i = Len(queue)
                  THEN [res EXCEPT !.status = "outside"]
                  ELSE LET w == walk_next(queue, res.i, res.t)
                       IN  [res EXCEPT !.i = w.i, !.t = w.t,
                                       !.path = Append(@, w.i)]
             ELSE IF res.kind = "calc"
                  THEN [res EXCEPT !.status = "done",
                                   !.ni = res.i, !.nt = res.t]
                  ELSE [res EXCEPT !.status = "int_prev",
                                   !.ni = res.i, !.nt = res.t,
                                   !.t = res.t - res.hst,
                                   !.path = <<res.i>>]
    /\ UNCHANGED <<es, ret, queue, req, genvars, mcu>>

\* while (likely(start < 0.))
IntegratePrevLoop ==
    /\ res # Idle
    /\ res.status = "int_prev"
    /\ res' = IF res.t < 0
              THEN IF res.i = 1 THEN [res EXCEPT !.status = "outside"]
                   ELSE LET w == walk_prev(queue, res.i, res.t)
                        IN  [res EXCEPT !.i = w.i, !.t = w.t,
                                        !.path = Append(@, w.i)]
              ELSE [res EXCEPT !.status = "int_next", !.i = res.ni,
                               !.t = res.nt + res.hst,
                               !.path = <<res.ni>>]
    /\ UNCHANGED <<es, ret, queue, req, genvars, mcu>>

\* while (likely(end > m->move_t))
IntegrateNextLoop ==
    /\ res # Idle
    /\ res.status = "int_next"
    /\ res' = IF res.t > queue[res.i].move_t
              THEN IF res.i = Len(queue)
                   THEN [res EXCEPT !.status = "outside"]
                   ELSE LET w == walk_next(queue, res.i, res.t)
                        IN  [res EXCEPT !.i = w.i, !.t = w.t,
                                        !.path = Append(@, w.i)]
              ELSE [res EXCEPT !.status = "done"]
    /\ UNCHANGED <<es, ret, queue, req, genvars, mcu>>

WalkReturn ==
    /\ res # Idle
    /\ res.status \in {"done", "outside"}
    /\ res' = Idle
    /\ UNCHANGED <<es, ret, queue, req, genvars, mcu>>

WalkNext == \/ WalkCall
            \/ WalkPrevLoop
            \/ WalkNextLoop
            \/ IntegratePrevLoop
            \/ IntegrateNextLoop
            \/ WalkReturn

\* a loop that has been entered runs its passes
SpecWalk == /\ WalkInit
            /\ [][WalkNext]_vars
            /\ WF_vars(WalkPrevLoop)
            /\ WF_vars(WalkNextLoop)
            /\ WF_vars(IntegratePrevLoop)
            /\ WF_vars(IntegrateNextLoop)

\* the absolute time the call asks for, shifted by the offset
WalkTime == MoveStart(queue, res.m) + res.move_time + res.offs
Normalised == res # Idle /\ res.status \in {"int_prev", "int_next", "done"}

(***************************************************************************)
(* C22: the time normalisation of extruder_calc_position and of            *)
(* pa_range_integrate ends on the move that contains the shifted time:     *)
(* for a shifted time inside the queue, afterwards                         *)
(* 0 <= move_time < duration of the selected move, also on a segment       *)
(* boundary, and start of the selected move + move_time is the original    *)
(* absolute time plus the offset.                                          *)
(***************************************************************************)
C22_NormalisationSelectsContainingMove ==
    (Normalised /\ InsideQueue(queue, WalkTime))
    => /\ 0 <= res.nt
       /\ res.nt < queue[res.ni].move_t
       /\ MoveStart(queue, res.ni) + res.nt = WalkTime


\* the places of a loop's path go one way, one move at a time
OneWay(path) ==
    \/ \A k \in 1..(Len(path) - 1) : path[k + 1] = path[k] - 1
    \/ \A k \in 1..(Len(path) - 1) : path[k + 1] = path[k] + 1

\* the shifted time and the smoothing window lie inside the queue
WindowInside ==
    /\ WalkTime - res.hst >= 0
    /\ WalkTime + res.hst < QueueEnd(queue)

Walking == res # Idle /\ res.status \notin {"done", "outside"}

(***************************************************************************)
(* C26: for a query whose shifted time and smoothing window lie inside the *)
(* queue, the walks of extruder_calc_position and pa_range_integrate       *)
(* terminate, also over zero-duration moves, without leaving the queue;    *)
(* each loop moves in one direction only and is at each move at most once. *)
(***************************************************************************)
C26_WalksTerminate ==
    /\ [](res # Idle /\ WindowInside
          => /\ res.status # "outside"
             /\ OneWay(res.path)
             /\ \A j, k \in 1..Len(res.path) :
                    res.path[j] = res.path[k] => j = k)
    /\ (Walking /\ WindowInside) ~> (res # Idle /\ res.status = "done")

C26_Witness ==
    /\ res # Idle
    /\ res.status = "done"
    /\ res.kind = "calc"
    /\ WindowInside
    /\ Len(res.path) = 3
    /\ queue[res.path[2]].move_t = 0


(***************************************************************************)
(* C23: shaper_pa_range_integrate returns, for the position and for the    *)
(* velocity integral, the sum over the pulses k of a_k times what          *)
(* pa_range_integrate gives at move_time + t_k for an output that starts   *)
(* from 0; with the single pulse (t = 0, a = 1) that is the unshaped       *)
(* integrals themselves, and with no pulses it is 0 for both.  The sums    *)
(* are numerators over the common denominator of the amplitudes.           *)
(***************************************************************************)
Unshaped(k) ==
    pa_range_start_base(queue, CHOOSE g \in ShapedGarbage : TRUE, es.sm[1],
                        res.m, 1,
                        res.move_time + es.sp[1].pulses[k].t).start_base

C24_StepGenWindow ==
    LET window == extruder_get_step_gen_window(es)
    IN  /\ window = Max(es.gen_steps_pre_active, es.gen_steps_post_active)
        /\ window >= 0
        /\ es.half_smooth_time >= 0
           => window = es.half_smooth_time + Abs(es.time_offset)
        /\ ret > 0 => ret = window

C24_Witness ==
    /\ ret = 2
    /\ ret = extruder_get_step_gen_window(es)
    /\ es.half_smooth_time = 1
    /\ es.time_offset = -1
    /\ es.gen_steps_pre_active = 0


(***************************************************************************)
(* C25: extruder_set_pressure_advance_model_func resets the pressure       *)
(* advance parameters to all zeros, installs the new model function and    *)
(* changes nothing else; with the stored parameters every model function   *)
(* (linear, tanh, reciprocal) then returns the input position unchanged    *)
(* for every velocity, as a finite number.                                 *)
(***************************************************************************)
C25_ModelFuncResetsParams ==
    req.op = "set_pressure_advance_model_func"
    => /\ es.pa_params = <<0, 0, 0>>
       /\ es.pa_func = req.func
       /\ es = [req.old EXCEPT !.pa_params = <<0, 0, 0>>,
                               !.pa_func = req.func]
       /\ \A func \in PaFuncs, position \in {0, 3},
             pa_velocity \in {-2, -1, 0, 1, 2} :
              PaFuncCall(func, position, pa_velocity, es.pa_params)
              = Fin(position, 1)

C25_Witness ==
    /\ req.op = "set_pressure_advance_model_func"
    /\ req.func = "recipr"
    /\ req.old.pa_func = "linear"
    /\ req.old.pa_params = <<2, 1, 0>>
    /\ req.old.half_smooth_time = 1
    /\ es.half_smooth_time = 1
    /\ es.pa_params = <<0, 0, 0>>


(***************************************************************************)
(* The position function of an extruder stepper as extruder_stepper_alloc  *)
(* returns it, before any set call.                                        *)
(***************************************************************************)
FreshInit == /\ es = extruder_stepper_alloc
             /\ ret = 0
             /\ queue \in Queues
             /\ req = NoReq
             /\ res = Idle
             /\ GenInit

FreshNext == CalcPosition \/ CalcPositionFault \/ CalcPositionDone

SpecFresh == FreshInit /\ [][FreshNext]_vars

(***************************************************************************)
(* C27: a freshly allocated extruder stepper has pressure advance 0,       *)
(* half_smooth_time 0, time_offset 0, a generation window of 0 on both     *)
(* sides and the X, Y and Z flags active; its position function returns    *)
(* the raw nominal position of the queried move.                           *)
(***************************************************************************)
C27_FreshStepperIsRaw ==
    /\ es.pressure_advance = 0
    /\ es.pa_params = <<0, 0, 0>>
    /\ es.half_smooth_time = 0
    /\ es.time_offset = 0
    /\ es.gen_steps_pre_active = 0
    /\ es.gen_steps_post_active = 0
    /\ es.active_flags = {"x", "y", "z"}
    /\ (res.status = "returned" /\ InsideQueue(queue, QueryTime))
       => res.pos12 = 12 * NominalPos(queue, QueryTime)

C27_Witness ==
    /\ res.status = "returned"
    /\ es.half_smooth_time = 0
    /\ es.pa_func = "null"
    /\ Len(queue) = 2
    /\ res.m = 2
    /\ res.move_time = 1
    /\ queue[2].half_accel # 0
    /\ InsideQueue(queue, QueryTime)
    /\ res.pos12 = 12 * NominalPos(queue, QueryTime)
    /\ res.pos12 # 12 * SeqSum(queue[2].start_pos)


(***************************************************************************)
(* neopixel_spi.c: WS2812 data sent as SPI bytes, one SPI byte per bit.    *)
(* The micro-controller runs one command at a time; only its timer goes on *)
(* while a command runs.  mcu holds                                        *)
(*   shutdown       whether shutdown() has been called,                    *)
(*   n              the struct neopixel_spi_s of the oid, once configured, *)
(*   oob            whether a byte was written outside n->buf,             *)
(*   timer, ticks   the 32-bit timer and how often it has ticked,          *)
(*                  a uint32_t being [hi, lo], its two 16-bit halves,      *)
(*   pc, last_req_time, rmt, cur                                           *)
(*                  where command_neopixel_send_spi is and its locals,     *)
(*   transfers, start, since, prev_end                                     *)
(*                  the SPI transfers started, the timer when the last one *)
(*                  started, the last_req_time it waited on, and the timer *)
(*                  when the previous one had ended (NoTime: none),        *)
(*   start_ticks, end_ticks                                                *)
(*                  how often the timer had ticked when the last transfer  *)
(*                  started and when the previous one had ended,           *)
(*   results, success   the neopixel_result messages sent and the last     *)
(*                  success value,                                         *)
(*   last           the last update command and the buffer before it.      *)
(***************************************************************************)
ONE_BIT == 124
ZERO_BIT == 96
MaxDataSize == 4096
PosSignBit == 32768
Uint16 == 65536

MaxTicks == 4
MaxSends == 2

NoNeopixel == [allocated |-> FALSE]
NoCmd == [cmd |-> "none"]

\* the arguments the host sends
DataSizes == {1, 2, MaxDataSize + 1}
UpdatePositions == {0, 1, 2, PosSignBit - 1, PosSignBit, Uint16 - 1}
UpdateBytes == {0, 165}
UpdateData ==
    {<<>>} \cup {<<b>> : b \in UpdateBytes}
           \cup {<<b, c>> : b \in UpdateBytes, c \in UpdateBytes}
\* uint32_t values: hi * 2^16 + lo
U32(hi, lo) == [hi |-> hi, lo |-> lo]
NoTime == [hi |-> -1, lo |-> -1]
TimerStarts == {U32(0, 0), U32(Uint16 - 1, Uint16 - 2)}
ResetMinTicks == {U32(0, 0), U32(0, 2)}

\* a + 1, a - b and a < b in uint32_t
Inc32(a) ==
    IF a.lo = Uint16 - 1 THEN U32((a.hi + 1) % Uint16, 0)
    ELSE U32(a.hi, a.lo + 1)
Diff32(a, b) ==
    LET borrow == IF a.lo < b.lo THEN 1 ELSE 0
    IN  U32((a.hi - b.hi - borrow + Uint16) % Uint16,
            (a.lo - b.lo + Uint16) % Uint16)
Less32(a, b) == a.hi < b.hi \/ (a.hi = b.hi /\ a.lo < b.lo)

\* (byte << bit) & 0x80, as a truth value
ShiftedTopBit(byte, bit) == ((byte * 2^bit) \div 128) % 2 = 1

\* n->buf[k] = v; a k outside the allocation is a write outside the buffer
StoreByte(st, k, v) ==
    IF k \in DOMAIN st.buf THEN [st EXCEPT !.buf[k] = v]
    ELSE [st EXCEPT !.oob = TRUE]

\* for (bit = 0; bit < 8; bit++) ... byte <<= 1
RECURSIVE StoreBits(_, _, _, _)
StoreBits(st, pos, byte, bit) ==
    IF bit = 8 THEN st
    ELSE StoreBits(StoreByte(st, pos * 8 + bit,
                             IF ShiftedTopBit(byte, bit) THEN ONE_BIT
                             ELSE ZERO_BIT),
                   pos, byte, bit + 1)

\* while (data_len) { ... data_len--; pos++; }
RECURSIVE StoreData(_, _, _)
StoreData(st, pos, data) ==
    IF data = <<>> THEN st
    ELSE StoreData(StoreBits(st, pos, Head(data), 0), (pos + 1) % Uint16,
                   Tail(data))

\* the test of command_neopixel_update_spi without its length half
update_rejected_pos_only(n, pos, data_len) ==
    (pos \div PosSignBit) % 2 = 1

\* pos & 0x8000 || (pos + data_len > (n->buf_size >> 3))
update_rejected(n, pos, data_len) ==
    \/ (pos \div PosSignBit) % 2 = 1
    \/ pos + data_len > n.buf_size \div 8

\* the wait of command_neopixel_send_spi counted from the start of the timer
reset_pending_since_boot(cur, last_req_time, rmt) ==
    Less32(cur, rmt)

\* cur - last_req_time < rmt
reset_pending(cur, last_req_time, rmt) ==
    Less32(Diff32(cur, last_req_time), rmt)

NeopixelInit ==
    /\ es = extruder_stepper_alloc
    /\ ret = 0
    /\ queue = <<>>
    /\ req = NoReq
    /\ res = Idle
    /\ gen_time = 0
    /\ head_time = 0
    /\ steps = <<>>
    /\ spos = 0
    /\ twin = NoTwin
    /\ \E t0 \in TimerStarts :
         mcu = [shutdown |-> FALSE, n |-> NoNeopixel, oob |-> FALSE,
                timer |-> t0, ticks |-> 0,
                pc |-> "idle", last_req_time |-> U32(0, 0),
                rmt |-> U32(0, 0), cur |-> U32(0, 0),
                transfers |-> 0, start |-> U32(0, 0), since |-> U32(0, 0),
                prev_end |-> NoTime, start_ticks |-> 0, end_ticks |-> 0,
                results |-> 0, success |-> 0, last |-> NoCmd]

hostvars == <<es, ret, queue, req, res, genvars>>

\* command_config_neopixel_spi: oid_alloc returns zeroed memory
ConfigNeopixelSpi ==
    /\ ~mcu.shutdown
    /\ mcu.pc = "idle"
    /\ ~mcu.n.allocated
    /\ \E arg2 \in DataSizes, arg3 \in ResetMinTicks :
         LET data_size == arg2 % Uint16
         IN  mcu' = IF data_size > MaxDataSize
                    THEN [mcu EXCEPT !.shutdown = TRUE, !.last = NoCmd]
                    ELSE [mcu EXCEPT
                            !.n = [allocated |-> TRUE,
                                   last_req_time |-> U32(0, 0),
                                   reset_min_ticks |-> arg3,
                                   data_size |-> data_size,
                                   buf_size |-> data_size * 8,
                                   buf |-> [k \in 0..(data_size * 8 - 1)
                                               |-> 0]],
                            !.last = NoCmd]
    /\ UNCHANGED hostvars

\* command_neopixel_update_spi
NeopixelUpdateSpi ==
    /\ ~mcu.shutdown
    /\ mcu.pc = "idle"
    /\ \E arg1 \in UpdatePositions, data \in UpdateData :
         LET pos == arg1 % Uint16
             data_len == Len(data) % 256
             cmd == [cmd |-> "update", pos |-> pos, data |-> data,
                     old |-> mcu.n]
         IN  mcu' =
               IF ~mcu.n.allocated
               THEN [mcu EXCEPT !.shutdown = TRUE, !.last = NoCmd]
               ELSE IF update_rejected(mcu.n, pos, data_len)
               THEN [mcu EXCEPT !.shutdown = TRUE, !.last = cmd]
               ELSE LET st == StoreData([buf |-> mcu.n.buf, oob |-> mcu.oob],
                                        pos, data)
                    IN  [mcu EXCEPT !.n.buf = st.buf, !.oob = st.oob,
                                    !.last = cmd]
    /\ UNCHANGED hostvars

\* command_neopixel_send_spi, up to the first timer_read_time()
NeopixelSendSpi ==
    /\ ~mcu.shutdown
    /\ mcu.pc = "idle"
    /\ mcu.results < MaxSends
    /\ mcu' = IF ~mcu.n.allocated
              THEN [mcu EXCEPT !.shutdown = TRUE, !.last = NoCmd]
              ELSE [mcu EXCEPT !.pc = "wait",
                               !.last_req_time = mcu.n.last_req_time,
                               !.rmt = mcu.n.reset_min_ticks,
                               !.cur = mcu.timer,
                               !.last = NoCmd]
    /\ UNCHANGED hostvars

\* while (cur - last_req_time < rmt) { irq_poll(); cur = timer_read_time(); }
\* and, once the test fails, the start of spidev_transfer_large
SendWait ==
    /\ mcu.pc = "wait"
    /\ mcu' = IF reset_pending(mcu.cur, mcu.last_req_time, mcu.rmt)
              THEN [mcu EXCEPT !.cur = mcu.timer]
              ELSE [mcu EXCEPT !.pc = "transfer",
                               !.transfers = @ + 1,
                               !.start = mcu.timer,
                               !.start_ticks = mcu.ticks,
                               !.since = mcu.last_req_time]
    /\ UNCHANGED hostvars

\* the transfer ends; n->last_req_time = timer_read_time(); sendf(...)
SendFinish ==
    /\ mcu.pc = "transfer"
    /\ mcu' = [mcu EXCEPT !.pc = "idle",
                          !.n.last_req_time = mcu.timer,
                          !.prev_end = mcu.timer,
                          !.end_ticks = mcu.ticks,
                          !.results = @ + 1,
                          !.success = 1]
    /\ UNCHANGED hostvars

TimerTick ==
    /\ mcu.ticks < MaxTicks
    /\ mcu' = [mcu EXCEPT !.timer = Inc32(@), !.ticks = @ + 1]
    /\ UNCHANGED hostvars

NeopixelNext == \/ ConfigNeopixelSpi
                \/ NeopixelUpdateSpi
                \/ NeopixelSendSpi
                \/ SendWait
                \/ SendFinish
                \/ TimerTick

SpecNeopixel == NeopixelInit /\ [][NeopixelNext]_vars

\* bit b of a byte, the most significant bit being bit 0
MsbBit(byte, b) == (byte \div 2^(7 - b)) % 2

(***************************************************************************)
(* C28: command_neopixel_update_spi never writes outside the buffer of     *)
(* data_size * 8 bytes.  A command with pos >= 0x8000 or                   *)
(* pos + data_len > data_size shuts down and leaves the buffer as it was;  *)
(* otherwise buf[(pos + j) * 8 + b] is ONE_BIT if bit b (most significant  *)
(* first) of data byte j is 1 and ZERO_BIT if it is 0, and every other     *)
(* byte of the buffer is unchanged.                                        *)
(***************************************************************************)
C28_UpdateStaysInBuffer ==
    /\ ~mcu.oob
    /\ mcu.n.allocated
       => /\ mcu.n.data_size <= MaxDataSize
          /\ DOMAIN mcu.n.buf = 0..(mcu.n.data_size * 8 - 1)
    /\ mcu.last.cmd = "update"
       => LET pos == mcu.last.pos
              data == mcu.last.data
              old == mcu.last.old
          IN  IF pos >= PosSignBit \/ pos + Len(data) > old.data_size
              THEN mcu.shutdown /\ mcu.n = old
              ELSE /\ ~mcu.shutdown
                   /\ \A k \in DOMAIN old.buf :
                        mcu.n.buf[k] =
                          IF pos * 8 <= k /\ k < (pos + Len(data)) * 8
                          THEN IF MsbBit(data[(k \div 8) - pos + 1], k % 8) = 1
                               THEN ONE_BIT ELSE ZERO_BIT
                          ELSE old.buf[k]

C28_Witness ==
    /\ mcu.last.cmd = "update"
    /\ ~mcu.shutdown
    /\ mcu.last.pos = 1
    /\ mcu.last.data = <<165>>
    /\ mcu.n.data_size = 2
    /\ mcu.last.old.buf[0] = ONE_BIT
    /\ mcu.n.buf[0] = ONE_BIT
    /\ mcu.n.buf[8] = ONE_BIT
    /\ mcu.n.buf[9] = ZERO_BIT
    /\ mcu.n.buf[15] = ONE_BIT

(***************************************************************************)
(* C29: command_neopixel_send_spi starts the SPI transfer only once        *)
(* (timer read - last_req_time) mod 2^32 >= reset_min_ticks,               *)
(* last_req_time being the timer recorded after the previous transfer: a   *)
(* transfer starts at least reset_min_ticks ticks after the previous one   *)
(* ended, also across a wraparound of the timer; each send emits exactly   *)
(* one neopixel_result, with success = 1, after the transfer.              *)
(***************************************************************************)
C29_ResetTimeElapsed ==
    /\ mcu.pc = "transfer"
       => /\ ~Less32(Diff32(mcu.cur, mcu.since), mcu.n.reset_min_ticks)
          /\ mcu.since = mcu.n.last_req_time
          /\ mcu.prev_end # NoTime
             => /\ mcu.since = mcu.prev_end
                /\ ~Less32(U32(0, mcu.start_ticks - mcu.end_ticks),
                           mcu.n.reset_min_ticks)
    /\ mcu.results = mcu.transfers - (IF mcu.pc = "transfer" THEN 1 ELSE 0)
    /\ mcu.results > 0 => mcu.success = 1

C29_Witness ==
    /\ mcu.pc = "transfer"
    /\ mcu.transfers = 2
    /\ mcu.n.reset_min_ticks = U32(0, 2)
    /\ mcu.prev_end = U32(Uint16 - 1, Uint16 - 1)
    /\ mcu.start = U32(0, 1)
    /\ mcu.results = 1

(***************************************************************************)
(* i2ccmds.c: command_i2c_modify_bits.  mcu holds, for this command,       *)
(*   flags          i2c->flags of the configured device,                   *)
(*   pc             "idle", "read" (before the bus read), "modify"         *)
(*                  (before the loop), "write" (before the bus write),     *)
(*                  "done" (before the return),                            *)
(*   reg, clear_set, data_len                                              *)
(*                  the decoded arguments,                                 *)
(*   receive_data   the local array, once the read has returned,           *)
(*   read, read_ok  the bytes the array held after the bus read, and       *)
(*                  whether the read returned success (the code does not   *)
(*                  look at the value returned),                           *)
(*   bus            the bus transactions of the command, in order.         *)
(***************************************************************************)
IF_SOFTWARE == 1
IF_HARDWARE == 2
Uint8 == 256
MaxClearSetLen == 4

I2CBytes == {0, 15, 165, 255}
I2CRegs == {<<>>, <<7>>}
RECURSIVE ByteSeqs(_)
ByteSeqs(n) ==
    IF n = 0 THEN {<<>>}
    ELSE {Append(s, b) : s \in ByteSeqs(n - 1), b \in I2CBytes}
ClearSets == UNION {ByteSeqs(n) : n \in 0..MaxClearSetLen}

\* bit k of a byte
Bit(x, k) == (x \div 2^k) % 2
RECURSIVE FromBits(_, _)
FromBits(f, k) == IF k = 8 THEN 0 ELSE f[k] * 2^k + FromBits(f, k + 1)
\* uint8_t a &= ~c
AndNot8(a, c) == FromBits([k \in 0..7 |-> Bit(a, k) * (1 - Bit(c, k))], 0)
\* uint8_t a |= s
Or8(a, s) ==
    FromBits([k \in 0..7 |-> IF Bit(a, k) = 1 \/ Bit(s, k) = 1 THEN 1 ELSE 0],
             0)

modify_byte_set_first(b, clear, set) ==
    AndNot8(Or8(b, set), clear)

\* receive_data[reg_len + i] &= ~clear_set[i];
\* receive_data[reg_len + i] |= clear_set[data_len + i];
modify_byte(b, clear, set) ==
    Or8(AndNot8(b, clear), set)

I2CIdle(flags) ==
    [shutdown |-> FALSE, flags |-> flags, pc |-> "idle", reg |-> <<>>,
     clear_set |-> <<>>, data_len |-> 0, receive_data |-> <<>>,
     read |-> <<>>, read_ok |-> TRUE, bus |-> <<>>]

I2CInit ==
    /\ es = extruder_stepper_alloc
    /\ ret = 0
    /\ queue = <<>>
    /\ req = NoReq
    /\ res = Idle
    /\ gen_time = 0
    /\ head_time = 0
    /\ steps = <<>>
    /\ spos = 0
    /\ twin = NoTwin
    /\ \E flags \in {IF_SOFTWARE, IF_HARDWARE} : mcu = I2CIdle(flags)

\* the bus routine the flags select
I2CVia == IF mcu.flags % 2 = IF_SOFTWARE THEN "software" ELSE "hardware"

\* command_i2c_modify_bits up to the memcpy of reg
I2CModifyBits ==
    /\ ~mcu.shutdown
    /\ mcu.pc = "idle"
    /\ \E reg \in I2CRegs, clear_set \in ClearSets :
         LET clear_set_len == Len(clear_set)
         IN  mcu' = IF clear_set_len % 2 # 0
                    THEN [mcu EXCEPT !.shutdown = TRUE, !.reg = reg,
                                     !.clear_set = clear_set]
                    ELSE [mcu EXCEPT !.pc = "read", !.reg = reg,
                                     !.clear_set = clear_set,
                                     !.data_len = (clear_set_len \div 2)
                                                     % Uint8]
    /\ UNCHANGED hostvars

\* i2c_software_read / i2c_read into receive_data + reg_len; a read that
\* fails leaves the array as it was, uninitialised
I2CRead ==
    /\ mcu.pc = "read"
    /\ \E ok \in BOOLEAN, bytes \in ByteSeqs(mcu.data_len) :
         mcu' = [mcu EXCEPT
                   !.pc = "modify",
                   !.receive_data = mcu.reg \o bytes,
                   !.read = bytes,
                   !.read_ok = ok,
                   !.bus = Append(@, [op |-> "read", via |-> I2CVia,
                                      reg |-> mcu.reg,
                                      len |-> mcu.data_len])]
    /\ UNCHANGED hostvars

\* for (int i = 0; i < data_len; i++) { ... }
I2CModify ==
    /\ mcu.pc = "modify"
    /\ LET reg_len == Len(mcu.reg)
       IN  mcu' = [mcu EXCEPT
                     !.pc = "write",
                     !.receive_data =
                         [j \in 1..(reg_len + mcu.data_len) |->
                            IF j <= reg_len THEN mcu.receive_data[j]
                            ELSE modify_byte(
                                   mcu.receive_data[j],
                                   mcu.clear_set[j - reg_len],
                                   mcu.clear_set[mcu.data_len + j - reg_len])]]
    /\ UNCHANGED hostvars

\* i2c_software_write / i2c_write of reg_len + data_len bytes
I2CWrite ==
    /\ mcu.pc = "write"
    /\ mcu' = [mcu EXCEPT
                 !.pc = "done",
                 !.bus = Append(@, [op |-> "write", via |-> I2CVia,
                                    len |-> (Len(mcu.reg) + mcu.data_len)
                                               % Uint8,
                                    data |-> mcu.receive_data])]
    /\ UNCHANGED hostvars

I2CReturn ==
    /\ mcu.pc = "done"
    /\ mcu' = I2CIdle(mcu.flags)
    /\ UNCHANGED hostvars

I2CNext == \/ I2CModifyBits
           \/ I2CRead
           \/ I2CModify
           \/ I2CWrite
           \/ I2CReturn

SpecI2C == I2CInit /\ [][I2CNext]_vars

(***************************************************************************)
(* C30: command_i2c_modify_bits with an odd clear_set length shuts down    *)
(* before any bus transaction; with an even length 2n it reads n bytes     *)
(* from the register, then writes the register address followed, for each  *)
(* i < n, by (read[i] AND NOT clear_set[i]) OR clear_set[n + i]: in every  *)
(* written byte a bit of the set mask is 1, a bit of the clear mask alone  *)
(* is 0, and a bit in neither mask is the bit read.                        *)
(***************************************************************************)
C30_ModifyBits ==
    /\ (mcu.pc # "idle" \/ mcu.shutdown) /\ Len(mcu.clear_set) % 2 = 1
       => mcu.shutdown /\ mcu.bus = <<>> /\ mcu.pc = "idle"
    /\ mcu.shutdown => Len(mcu.clear_set) % 2 = 1
    /\ mcu.pc = "done"
       => LET n == Len(mcu.clear_set) \div 2
              reg_len == Len(mcu.reg)
          IN  /\ Len(mcu.bus) = 2
              /\ mcu.bus[1].op = "read"
              /\ mcu.bus[1].reg = mcu.reg
              /\ mcu.bus[1].len = n
              /\ Len(mcu.read) = n
              /\ mcu.bus[2].op = "write"
              /\ mcu.bus[2].via = mcu.bus[1].via
              /\ mcu.bus[2].len = reg_len + n
              /\ Len(mcu.bus[2].data) = reg_len + n
              /\ \A j \in 1..reg_len : mcu.bus[2].data[j] = mcu.reg[j]
              /\ \A i \in 1..n : \A k \in 0..7 :
                   Bit(mcu.bus[2].data[reg_len + i], k) =
                     IF Bit(mcu.clear_set[n + i], k) = 1 THEN 1
                     ELSE IF Bit(mcu.clear_set[i], k) = 1 THEN 0
                     ELSE Bit(mcu.read[i], k)

C30_Witness ==
    /\ mcu.pc = "done"
    /\ mcu.reg = <<7>>
    /\ mcu.clear_set = <<15, 165>>
    /\ mcu.read = <<255>>
    /\ mcu.read_ok
    /\ mcu.bus[2].data = <<7, 245>>

====
